---- MODULE Spec2Model ----
(***************************************************************************)
(* A model of src/app.py: removable-drive enumeration                      *)
(* (list_removable_drives), the Treeview materialisation (_populate_tree)  *)
(* and the copy pipeline (copy_all, _copy_paths_thread, _copy_tree).       *)
(*                                                                         *)
(* A file name is a sequence of tokens ("photo", ".", "jpg", "_copy"): a   *)
(* token is a piece of the string with no dot inside, "." is the dot.  A   *)
(* path string is the record [comps, trail]: its components between the    *)
(* separators and whether it ends with a separator ("E:\" has trail).      *)
(* The file system maps a component sequence to a directory or to a file   *)
(* with its data.                                                          *)
(***************************************************************************)
EXTENDS Integers, Sequences, FiniteSets, TLC

VARIABLES
    osState,       \* what the OS answers to the enumeration's queries
    enumResult,    \* result of the last direct call of list_removable_drives
    fs,            \* the file system: component sequence -> entry
    failMode,      \* how shutil.copy2 fares on each source file
    reverseScan,   \* directory listing order of this file system
    drive_var,     \* self.drive_var (a path, or NoPath for '')
    combo_values,  \* self.drives_combo['values']
    destination,   \* self.destination (a path, or NoPath for None)
    status,        \* text of self.status_label, without the 'Statut: ' prefix
    boxes,         \* the messagebox calls made so far, in order
    uncaught,      \* exceptions that left a callback or a thread uncaught
    copier,        \* the _copy_paths_thread thread
    dispatches,    \* the copy threads started so far: what each was given
    tree,          \* items of self.tree: sequence of [id, parent, text]
    nextId,        \* next Treeview item id
    pop            \* the _populate_tree threads, in start order

vars == <<osState, enumResult, fs, failMode, reverseScan, drive_var,
          combo_values, destination, status, boxes, uncaught, copier,
          dispatches, tree, nextId, pop>>

-----------------------------------------------------------------------------
(* Bounds of the model *)

\* Longest path, in components, the OS accepts (ENAMETOOLONG beyond it).
MaxPathLen == 9
\* Copy threads started in one behaviour.
MaxCopies == 2
\* _populate_tree threads started in one behaviour.
MaxOpens == 2

-----------------------------------------------------------------------------
(* Strings and paths *)

Last(s) == s[Len(s)]
Front(s) == SubSeq(s, 1, Len(s) - 1)
IsPrefix(a, b) == Len(a) <= Len(b) /\ SubSeq(b, 1, Len(a)) = a
Range(s) == {s[i] : i \in 1..Len(s)}

\* '' and None
NoPath == [comps |-> <<>>, trail |-> FALSE, none |-> TRUE]
Path(c) == [comps |-> c, trail |-> FALSE, none |-> FALSE]
DirPath(c) == [comps |-> c, trail |-> TRUE, none |-> FALSE]

\* "E:" : a drive specification
IsDriveSpec(name) == Len(name) = 2 /\ name[2] = ":"

\* str.rstrip(os.sep)
Rstrip(p) == [p EXCEPT !.trail = FALSE]

\* os.path.basename: what follows the last separator (and the drive); <<>> is ''
Basename(p) ==
    IF p.trail \/ p.comps = <<>> THEN <<>>
    ELSE IF Len(p.comps) = 1 /\ IsDriveSpec(p.comps[1]) THEN <<>>
    ELSE Last(p.comps)

\* os.path.join(p, name)
Join(p, name) == Path(Append(p.comps, name))

\* os.path.relpath(root, start) for root at or below start; <<>> is '.'
Relpath(root, start) ==
    SubSeq(root.comps, Len(start.comps) + 1, Len(root.comps))

\* os.path.join(p, rel) for a relative path rel of several components
JoinRel(p, rel) == Path(p.comps \o rel)

\* index of the last "." of a name, 0 if none
RECURSIVE LastDot(_, _)
LastDot(name, i) ==
    IF i = 0 THEN 0
    ELSE IF name[i] = "." THEN i ELSE LastDot(name, i - 1)

\* os.path.splitext on the last component: leading dots are no extension
SplitExt(name) ==
    LET d == LastDot(name, Len(name))
    IN  IF d > 0 /\ \E k \in 1..(d - 1) : name[k] # "."
        THEN [base |-> SubSeq(name, 1, d - 1), ext |-> SubSeq(name, d, Len(name))]
        ELSE [base |-> name, ext |-> <<>>]

\* base + '_copy' + ext
CopyName(name) ==
    LET s == SplitExt(name) IN s.base \o <<"_copy">> \o s.ext

-----------------------------------------------------------------------------
(* The file system *)

DirEntry == [kind |-> "dir", data |-> 0]
FileEntry(d) == [kind |-> "file", data |-> d]
\* what an interrupted copy leaves at its destination: a truncated file
PartialFile == [kind |-> "file", data |-> 0]

Exists(f, c) == c \in DOMAIN f
IsDir(f, c) == c \in DOMAIN f /\ f[c].kind = "dir"
IsFile(f, c) == c \in DOMAIN f /\ f[c].kind = "file"

\* an order on the tokens, for the sorted listing
Alphabet == <<".", ":", "_copy", "D", "E", "a", "b", "d", "home", "media",
              "mnt", "out", "root", "run", "s", "t", "u", "usb_copy", "v",
              "Volumes">>
TokRank(t) == CHOOSE i \in 1..Len(Alphabet) : Alphabet[i] = t

RECURSIVE NameLess(_, _)
NameLess(a, b) ==
    IF a = <<>> THEN b # <<>>
    ELSE IF b = <<>> THEN FALSE
    ELSE IF a[1] = b[1] THEN NameLess(Tail(a), Tail(b))
    ELSE TokRank(a[1]) < TokRank(b[1])

RECURSIVE SortNames(_, _)
SortNames(S, rev) ==
    IF S = {} THEN <<>>
    ELSE LET m == CHOOSE x \in S : \A y \in S \ {x} :
                      IF rev THEN NameLess(y, x) ELSE NameLess(x, y)
         IN  <<m>> \o SortNames(S \ {m}, rev)

ChildNames(f, c) ==
    {Last(q) : q \in {q \in DOMAIN f : Len(q) = Len(c) + 1 /\ IsPrefix(c, q)}}

\* one os.scandir of directory c, as os.walk splits it: (dirnames, filenames).
\* For a path that is no directory, or is too long, os.walk swallows the
\* error and yields nothing (ok is FALSE).
Scandir(f, c, rev) ==
    IF ~IsDir(f, c) \/ Len(c) > MaxPathLen
    THEN [ok |-> FALSE, dirs |-> <<>>, files |-> <<>>]
    ELSE [ok |-> TRUE,
          dirs  |-> SortNames({n \in ChildNames(f, c) : IsDir(f, Append(c, n))}, rev),
          files |-> SortNames({n \in ChildNames(f, c) : IsFile(f, Append(c, n))}, rev)]

\* os.makedirs(c, exist_ok=True): the missing ancestors first, then c
RECURSIVE Makedirs(_, _)
Makedirs(f, c) ==
    IF c \in DOMAIN f THEN [fs |-> f, raised |-> f[c].kind # "dir"]
    ELSE LET h == Front(c)
             r == IF h \in DOMAIN f THEN [fs |-> f, raised |-> FALSE]
                  ELSE Makedirs(f, h)
         IN  IF r.raised THEN r
             ELSE IF Len(c) > MaxPathLen \/ r.fs[h].kind # "dir"
                  THEN [fs |-> r.fs, raised |-> TRUE]
                  ELSE [fs |-> (c :> DirEntry) @@ r.fs, raised |-> FALSE]

\* a copy that refuses to replace an existing destination file
Copy2Exclusive(f, mode, sp, dp) ==
    LET to == IF IsDir(f, dp) THEN Append(dp, Last(sp)) ELSE dp
    IN  IF \/ ~IsFile(f, sp)
           \/ mode = "noread"
           \/ Exists(f, to)
           \/ ~IsDir(f, Front(to))
           \/ Len(to) > MaxPathLen
        THEN [fs |-> f, raised |-> TRUE]
        ELSE IF mode = "io"
        THEN [fs |-> (to :> PartialFile) @@ f, raised |-> TRUE]
        ELSE [fs |-> (to :> f[sp]) @@ f, raised |-> FALSE]

\* shutil.copy2(sp, dp): into dp when dp is a directory; the destination file
\* is truncated and rewritten when it exists.  mode is "ok", "noread" (the
\* source cannot be opened) or "io" (the read fails part-way).
Copy2(f, mode, sp, dp) ==
    LET to == IF IsDir(f, dp) THEN Append(dp, Last(sp)) ELSE dp
    IN  IF \/ ~IsFile(f, sp)
           \/ mode = "noread"
           \/ to = sp
           \/ IsDir(f, to)
           \/ ~IsDir(f, Front(to))
           \/ Len(to) > MaxPathLen
        THEN [fs |-> f, raised |-> TRUE]
        ELSE IF mode = "io"
        THEN [fs |-> (to :> PartialFile) @@ f, raised |-> TRUE]
        ELSE [fs |-> (to :> f[sp]) @@ f, raised |-> FALSE]

-----------------------------------------------------------------------------
(* list_removable_drives *)

DRIVE_REMOVABLE == 2
NumLetters == 26
Letters == <<"A", "B", "C", "D", "E", "F", "G", "H", "I", "J", "K", "L", "M",
             "N", "O", "P", "Q", "R", "S", "T", "U", "V", "W", "X", "Y", "Z">>
\* the outcome of a query that raised
Raises == -1

RECURSIVE Pow2(_)
Pow2(i) == IF i = 0 THEN 1 ELSE 2 * Pow2(i - 1)

\* bitmask & (1 << i)
BitSet(mask, i) == (mask \div Pow2(i)) % 2 = 1

\* f"{chr(65 + i)}:\\"
DriveLetterPath(i) == DirPath(<< <<Letters[i + 1], ":">> >>)

\* the loop over range(26), from letter i on, inside the outer try
RECURSIVE WinScan(_, _, _)
WinScan(os, i, drives) ==
    IF i = NumLetters THEN drives
    ELSE IF BitSet(os.mask, i) /\ os.dtype[i] = DRIVE_REMOVABLE
         THEN WinScan(os, i + 1, Append(drives, DriveLetterPath(i)))
         ELSE WinScan(os, i + 1, drives)

\* the 'win' branch: an exception of GetLogicalDrives is swallowed by the
\* outer except, one of GetDriveTypeW by the inner one
WinDrives(os) ==
    IF os.mask = Raises THEN [raised |-> FALSE, drives |-> <<>>]
    ELSE [raised |-> FALSE, drives |-> WinScan(os, 0, <<>>)]

\* ['/media', '/mnt', '/run/media', str(Path.home() / 'Volumes'), '/Volumes']
Candidates(os) ==
    << Path(<< <<"media">> >>), Path(<< <<"mnt">> >>),
       Path(<< <<"run">>, <<"media">> >>),
       Path(os.home \o << <<"Volumes">> >>), Path(<< <<"Volumes">> >>) >>

\* what the OS answers about a candidate path: the bases are looked up by
\* path, so that two candidates naming one directory get one answer
BaseOf(os, p) ==
    IF p.comps \in DOMAIN os.bases THEN os.bases[p.comps]
    ELSE [state |-> "absent", entries |-> <<>>]

\* the loop over os.listdir(base), from entry j on
RECURSIVE ListScan(_, _, _, _)
ListScan(base, entries, j, acc) ==
    IF j > Len(entries) THEN acc
    ELSE LET path == Join(base, entries[j].name)
         IN  IF entries[j].mount /\ path \notin acc.seen
             THEN ListScan(base, entries, j + 1,
                           [drives |-> Append(acc.drives, path),
                            seen |-> acc.seen \cup {path}])
             ELSE ListScan(base, entries, j + 1, acc)

\* what except PermissionError lets through: any other error of os.listdir
ListdirEscapes(state) == state \in {"notdir", "ioerror"}

\* the loop over the candidates, from candidate k on
RECURSIVE PosixScan(_, _, _)
PosixScan(os, k, acc) ==
    IF k > Len(Candidates(os))
    THEN [raised |-> FALSE, drives |-> acc.drives]
    ELSE LET base == Candidates(os)[k]
             b == BaseOf(os, base)
         IN  IF b.state = "absent" THEN PosixScan(os, k + 1, acc)
             ELSE IF b.state = "ok"
                  THEN PosixScan(os, k + 1, ListScan(base, b.entries, 1, acc))
             ELSE IF ListdirEscapes(b.state)
                  THEN [raised |-> TRUE, drives |-> acc.drives]
             ELSE PosixScan(os, k + 1, acc)

ListRemovableDrives(os) ==
    IF os.platform = "win" THEN WinDrives(os)
    ELSE PosixScan(os, 1, [drives |-> <<>>, seen |-> {}])

-----------------------------------------------------------------------------
(* The worlds the application is started in *)

fa == <<"a", ".", "t">>
fac == <<"a", "_copy", ".", "t">>
fb == <<"b", ".", "t">>
ds == <<"s">>
dd == <<"d">>

\* contents of a volume, by path relative to its root
Shape1 == (<<fa>> :> FileEntry(1))
Shape2 == (<<fa>> :> FileEntry(1)) @@ (<<fac>> :> FileEntry(2))
Shape3 == (<<fa>> :> FileEntry(1)) @@ (<<ds>> :> DirEntry)
          @@ (<<ds, fb>> :> FileEntry(3)) @@ (<<ds, dd>> :> DirEntry)
          @@ (<<ds, dd, fa>> :> FileEntry(4))
Shapes == {Shape1, Shape2, Shape3}
CopyShapes == {Shape2, Shape3}
\* a small volume for the interleavings: one directory with one file
Shape0 == (<<ds>> :> DirEntry) @@ (<<ds, fb>> :> FileEntry(3))

\* the shape mounted at root
Mounted(root, shape) ==
    [q \in {root \o r : r \in DOMAIN shape} |->
        shape[SubSeq(q, Len(root) + 1, Len(q))]]

Dirs(S) == [q \in S |-> DirEntry]

PosixOs ==
    [platform |-> "posix", home |-> << <<"home">> >>, mask |-> 0,
     dtype |-> <<>>,
     bases |-> (<< <<"media">> >> :>
                  [state |-> "ok",
                   entries |-> << [name |-> <<"u">>, mount |-> TRUE],
                                  [name |-> <<"v">>, mount |-> TRUE] >>])]

WinOs ==
    [platform |-> "win", home |-> <<>>, mask |-> Pow2(4),
     dtype |-> (4 :> DRIVE_REMOVABLE),
     bases |-> << >>]

\* the first removable volume and the folders the user may pick as destination
VolumeRoot(os) ==
    IF os.platform = "win" THEN << <<"E", ":">> >> ELSE << <<"media">>, <<"u">> >>
OutDir(os) ==
    IF os.platform = "win" THEN << <<"D", ":">>, <<"out">> >> ELSE << <<"out">> >>
AltDir(os) ==
    IF os.platform = "win" THEN << <<"D", ":">>, <<"home">> >> ELSE << <<"home">> >>

WorldFs(os, shape) ==
    Mounted(VolumeRoot(os), shape)
    @@ Dirs({<<>>, VolumeRoot(os), OutDir(os), AltDir(os)})
    @@ (IF os.platform = "win" THEN Dirs({<< <<"D", ":">> >>})
        ELSE Dirs({<< <<"media">> >>, << <<"media">>, <<"v">> >>})
             @@ (<< <<"media">>, <<"v">>, fb >> :> FileEntry(5)))

\* files the destination already holds before the first copy
OldFile == [kind |-> "file", data |-> 9]
Leftovers(os) ==
    LET name == IF os.platform = "win" THEN <<"root">> ELSE <<"u">>
        top == IF os.platform = "win" THEN <<"usb_copy", "_copy">> ELSE <<"u", "_copy">>
    IN  Dirs({OutDir(os) \o <<top>>, OutDir(os) \o <<top, name>>})
        @@ (OutDir(os) \o <<top, name, fa>> :> OldFile)
        @@ (OutDir(os) \o <<fa>> :> OldFile)

FilesOf(f) == {c \in DOMAIN f : f[c].kind = "file"}

\* at most one file of the volume fails to copy
FailModes(os, shape) ==
    {[c \in FilesOf(Mounted(VolumeRoot(os), shape)) |-> "ok"]}
    \cup {[c \in FilesOf(Mounted(VolumeRoot(os), shape)) |->
              IF c = bad THEN m ELSE "ok"] :
            bad \in FilesOf(Mounted(VolumeRoot(os), shape)), m \in {"noread", "io"}}

ModeOf(c) == IF c \in DOMAIN failMode THEN failMode[c] ELSE "ok"

NoCopier == [pc |-> "none", paths |-> <<>>, override_dst |-> NoPath, i |-> 0,
             src |-> NoPath, dst |-> NoPath, stack |-> <<>>, outcome |-> "none"]

\* __init__ ends with refresh_drives(): the state after construction
Constructed(os) ==
    LET r == ListRemovableDrives(os)
    IN  /\ osState = os
        /\ enumResult = [raised |-> FALSE, drives |-> <<>>, called |-> FALSE]
        /\ combo_values = IF r.raised THEN <<>> ELSE r.drives
        /\ drive_var = IF r.raised \/ r.drives = <<>> THEN NoPath ELSE r.drives[1]
        /\ status = IF r.raised THEN "Détection des lecteurs..." ELSE "Prêt"
        /\ uncaught = IF r.raised THEN 1 ELSE 0
        /\ destination = NoPath
        /\ boxes = <<>>
        /\ copier = NoCopier
        /\ dispatches = <<>>
        /\ tree = <<>>
        /\ nextId = 1
        /\ pop = <<>>

InitCopy ==
    \E os \in {PosixOs, WinOs}, shape \in CopyShapes, old \in BOOLEAN :
        /\ Constructed(os)
        /\ fs = IF old THEN Leftovers(os) @@ WorldFs(os, shape) ELSE WorldFs(os, shape)
        /\ failMode \in FailModes(os, shape)
        /\ reverseScan \in BOOLEAN

-----------------------------------------------------------------------------
(* The interactive flow *)

\* refresh_drives; an exception of list_removable_drives leaves the callback
RefreshDrives ==
    LET r == ListRemovableDrives(osState)
    IN  /\ IF r.raised
           THEN /\ status' = "Détection des lecteurs..."
                /\ uncaught' = uncaught + 1
                /\ UNCHANGED <<combo_values, drive_var, tree>>
           ELSE /\ combo_values' = r.drives
                /\ drive_var' = IF r.drives # <<>> THEN r.drives[1] ELSE NoPath
                /\ tree' = <<>>
                /\ status' = "Prêt"
                /\ UNCHANGED uncaught
        /\ UNCHANGED <<osState, enumResult, fs, failMode, reverseScan, destination,
                       boxes, copier, dispatches, nextId, pop>>

\* the user picks a value of the read-only combobox bound to drive_var
SelectDrive(d) ==
    /\ d \in Range(combo_values)
    /\ d # drive_var
    /\ drive_var' = d
    /\ UNCHANGED <<osState, enumResult, fs, failMode, reverseScan, combo_values,
                   destination, status, boxes, uncaught, copier, dispatches,
                   tree, nextId, pop>>

\* choose_destination, the dialog answering dst (a cancelled dialog answers ''
\* and changes nothing)
ChooseDestination(dst) ==
    /\ ~dst.none
    /\ IsDir(fs, dst.comps)
    /\ destination' = dst
    /\ status' = "Destination"
    /\ UNCHANGED <<osState, enumResult, fs, failMode, reverseScan, drive_var,
                   combo_values, boxes, uncaught, copier, dispatches, tree,
                   nextId, pop>>

\* what a started copy thread was given, and the state it was started in
Dispatch(kind, paths, override) ==
    [kind |-> kind, paths |-> paths, override_dst |-> override,
     drive |-> drive_var, destination |-> destination, before |-> fs]

\* os.path.basename(here) or 'usb_copy', then f'{basename}_copy'
CopyFolderName(src) ==
    LET basename == Basename(Rstrip(src))
    IN  (IF basename = <<>> THEN <<"usb_copy">> ELSE basename) \o <<"_copy">>

\* copy_all
CopyAll ==
    /\ Len(dispatches) < MaxCopies
    /\ IF drive_var.none \/ destination.none
       THEN /\ boxes' = Append(boxes, "showwarning")
            /\ dispatches' = Append(dispatches, Dispatch("refused", <<>>, NoPath))
            /\ UNCHANGED copier
       ELSE LET dst_folder == Join(destination, CopyFolderName(drive_var))
            IN  /\ copier' = [NoCopier EXCEPT !.pc = "start",
                                              !.paths = <<drive_var>>,
                                              !.override_dst = dst_folder,
                                              !.i = 1]
                /\ dispatches' = Append(dispatches,
                                        Dispatch("copy_all", <<drive_var>>, dst_folder))
                /\ UNCHANGED boxes
    /\ UNCHANGED <<osState, enumResult, fs, failMode, reverseScan, drive_var,
                   combo_values, destination, status, uncaught, tree, nextId, pop>>

\* _copy_paths_thread(paths) started with its default override_dst=None
CopyPaths(paths) ==
    /\ Len(dispatches) < MaxCopies
    /\ copier' = [NoCopier EXCEPT !.pc = "start", !.paths = paths, !.i = 1]
    /\ dispatches' = Append(dispatches, Dispatch("direct", paths, NoPath))
    /\ UNCHANGED <<osState, enumResult, fs, failMode, reverseScan, drive_var,
                   combo_values, destination, status, boxes, uncaught, tree,
                   nextId, pop>>

-----------------------------------------------------------------------------
(* _copy_paths_thread and _copy_tree *)

\* a thread that derives its folder from self.destination when it runs
WorkerDstRereads(w) ==
    IF w.override_dst.none \/ destination.none THEN destination
    ELSE Join(destination, Last(w.override_dst.comps))

\* dst = override_dst or self.destination
WorkerDst(w) == IF w.override_dst.none THEN destination ELSE w.override_dst

\* no except clause: the exception ends the thread
CopyFailedEscapes(w) == [w EXCEPT !.pc = "done", !.outcome = "escaped"]

\* the except clause of _copy_paths_thread
CopyFailed(w) == [w EXCEPT !.pc = "done", !.outcome = "error"]

\* the body without its try: the exception of the copy leaves the loop
CopyTreeFileUncaught(f, sp, dp) ==
    LET to == IF Exists(f, dp) THEN Append(Front(dp), CopyName(Last(dp))) ELSE dp
    IN  Copy2(f, ModeOf(sp), sp, to)

\* the body of 'for f in files' for one file: the exception of the copy is
\* caught and printed
CopyTreeFile(f, sp, dp) ==
    LET to == IF Exists(f, dp) THEN Append(Front(dp), CopyName(Last(dp))) ELSE dp
        r == Copy2(f, ModeOf(sp), sp, to)
    IN  [fs |-> r.fs, raised |-> FALSE]

\* 'for f in files', from file k on
RECURSIVE CopyFiles(_, _, _, _, _)
CopyFiles(f, root, target_root, files, k) ==
    IF k > Len(files) THEN [fs |-> f, raised |-> FALSE]
    ELSE LET r == CopyTreeFile(f, Append(root, files[k]),
                               Append(target_root, files[k]))
         IN  IF r.raised THEN r
             ELSE CopyFiles(r.fs, root, target_root, files, k + 1)

\* one iteration of 'for root, dirs, files in os.walk(src)'
WalkBody(f, w, root, files) ==
    LET rel == Relpath(Path(root), w.src)
        target_root == IF rel # <<>> THEN JoinRel(w.dst, rel) ELSE w.dst
        m == Makedirs(f, target_root.comps)
    IN  IF m.raised THEN m
        ELSE CopyFiles(m.fs, root, target_root.comps, files, 1)

\* self.set_status('Copie en cours...')
CopyStart ==
    /\ copier.pc = "start"
    /\ copier' = [copier EXCEPT !.pc = "loop"]
    /\ status' = "Copie en cours..."
    /\ UNCHANGED <<osState, enumResult, fs, failMode, reverseScan, drive_var,
                   combo_values, destination, boxes, uncaught, dispatches,
                   tree, nextId, pop>>

\* the end of 'for p in paths': the status and the notification
CopyFinish ==
    /\ copier.pc = "loop"
    /\ copier.i > Len(copier.paths)
    /\ copier' = [copier EXCEPT !.pc = "done", !.outcome = "ok"]
    /\ status' = "Copie terminée"
    /\ boxes' = Append(boxes, "showinfo")
    /\ UNCHANGED <<osState, enumResult, fs, failMode, reverseScan, drive_var,
                   combo_values, destination, uncaught, dispatches, tree,
                   nextId, pop>>

\* the head of 'for p in paths' for a directory: _copy_tree is entered
CopyEnterTree ==
    /\ copier.pc = "loop"
    /\ copier.i <= Len(copier.paths)
    /\ LET p == copier.paths[copier.i]
           dst == WorkerDst(copier)
           name == IF Basename(Rstrip(p)) = <<>> THEN <<"root">>
                   ELSE Basename(Rstrip(p))
       IN  /\ IsDir(fs, p.comps)
           /\ IF dst.none
              THEN /\ copier' = CopyFailed(copier)
                   /\ status' = "Erreur lors de la copie"
                   /\ boxes' = Append(boxes, "showerror")
              ELSE /\ copier' = [copier EXCEPT !.pc = "walk", !.src = p,
                                               !.dst = Join(dst, name),
                                               !.stack = <<p.comps>>]
                   /\ UNCHANGED <<status, boxes>>
    /\ UNCHANGED <<osState, enumResult, fs, failMode, reverseScan, drive_var,
                   combo_values, destination, uncaught, dispatches, tree,
                   nextId, pop>>

\* the head of 'for p in paths' for anything else: makedirs, then copy2
CopyPlainFile ==
    /\ copier.pc = "loop"
    /\ copier.i <= Len(copier.paths)
    /\ LET p == copier.paths[copier.i]
           dst == WorkerDst(copier)
           m == Makedirs(fs, dst.comps)
       IN  /\ ~IsDir(fs, p.comps)
           /\ IF dst.none \/ m.raised
              THEN /\ copier' = CopyFailed(copier)
                   /\ fs' = IF dst.none THEN fs ELSE m.fs
                   /\ status' = "Erreur lors de la copie"
                   /\ boxes' = Append(boxes, "showerror")
              ELSE /\ fs' = Copy2(m.fs, ModeOf(p.comps), p.comps, dst.comps).fs
                   /\ copier' = [copier EXCEPT !.i = @ + 1]
                   /\ UNCHANGED <<status, boxes>>
    /\ UNCHANGED <<osState, enumResult, failMode, reverseScan, drive_var,
                   combo_values, destination, uncaught, dispatches, tree,
                   nextId, pop>>

\* os.walk visits the next directory and the loop body runs on what it yields
CopyWalk ==
    /\ copier.pc = "walk"
    /\ LET root == Head(copier.stack)
           ls == Scandir(fs, root, reverseScan)
           r == IF ls.ok THEN WalkBody(fs, copier, root, ls.files)
                ELSE [fs |-> fs, raised |-> FALSE]
           rest == [k \in 1..Len(ls.dirs) |-> Append(root, ls.dirs[k])]
                   \o Tail(copier.stack)
       IN  /\ fs' = r.fs
           /\ IF r.raised
              THEN /\ copier' = CopyFailed(copier)
                   /\ status' = "Erreur lors de la copie"
                   /\ boxes' = Append(boxes, "showerror")
              ELSE /\ copier' = IF rest = <<>>
                                THEN [copier EXCEPT !.pc = "loop", !.i = @ + 1,
                                                    !.stack = <<>>]
                                ELSE [copier EXCEPT !.stack = rest]
                   /\ UNCHANGED <<status, boxes>>
    /\ UNCHANGED <<osState, enumResult, failMode, reverseScan, drive_var,
                   combo_values, destination, uncaught, dispatches, tree,
                   nextId, pop>>

CopierStep == CopyStart \/ CopyEnterTree \/ CopyPlainFile \/ CopyWalk \/ CopyFinish

CopierIdle == copier.pc \in {"none", "done"}

-----------------------------------------------------------------------------
(* Copies one after the other: the destination is picked, then a copy is    *)
(* started and runs to its end before the next click.                       *)

\* the folders offered by the dialog: outside the volume, the volume's own
\* root, and a folder of the volume
DestChoices ==
    {Path(OutDir(osState)), Path(VolumeRoot(osState)),
     Path(Append(VolumeRoot(osState), ds))}

NextCopy ==
    \/ CopierIdle /\ \E d \in DestChoices : ChooseDestination(d)
    \/ CopierIdle /\ CopyAll
    \/ CopierIdle /\ CopyPaths(<<Path(Append(VolumeRoot(osState), fa))>>)
    \/ CopierStep

SpecCopy == InitCopy /\ [][NextCopy]_vars

-----------------------------------------------------------------------------
(* Properties of the copy pipeline *)

LastDispatch == dispatches[Len(dispatches)]
CopyDone == copier.pc = "done" /\ dispatches # <<>>

\* c lies at or below the directory top
Under(top, c) == IsPrefix(top, c)

\* the files below directory top in file system f
FilesBelow(f, top) == {c \in FilesOf(f) : Under(top, c) /\ c # top}

\* where _copy_tree(src, dst) puts the source file c when nothing collides
Mirror(src, dst, c) == dst \o SubSeq(c, Len(src) + 1, Len(c))

\* the part of f at or below top
Subtree(f, top) == [c \in {c \in DOMAIN f : Under(top, c)} |-> f[c]]

\* C1: no silent overwrite: a file that exists before a step of a copy has the
\* same content after it, whatever the sources and however often they are
\* copied.
C1_NoSilentOverwrite ==
    [][\A c \in DOMAIN fs : fs[c].kind = "file" => fs'[c] = fs[c]]_vars

\* the first two copies were copy_all of the same volume into the same folder,
\* which lay outside the volume and did not hold the target yet; every file
\* is readable
SameVolumeTwice ==
    /\ Len(dispatches) = 2
    /\ copier.pc = "done"
    /\ dispatches[1].kind = "copy_all"
    /\ dispatches[2].kind = "copy_all"
    /\ dispatches[1].paths = dispatches[2].paths
    /\ dispatches[1].override_dst = dispatches[2].override_dst
    /\ ~Under(dispatches[1].paths[1].comps, dispatches[1].destination.comps)
    /\ ~Exists(dispatches[1].before, dispatches[1].override_dst.comps)
    /\ \A c \in DOMAIN failMode : failMode[c] = "ok"

\* C2: after the same directory source was copied twice into a destination
\* that was empty at first, every source file name.ext at relative path r has
\* target/r/name.ext, as the first run wrote it, and target/r/name_copy.ext.
C2_TwiceGivesBothNames ==
    SameVolumeTwice =>
        \A c \in FilesBelow(fs, copier.src.comps) :
            LET t == Mirror(copier.src.comps, copier.dst.comps, c)
            IN  /\ IsFile(fs, t)
                /\ fs[t] = dispatches[2].before[t]
                /\ fs[t] = fs[c]
                /\ IsFile(fs, Append(Front(t), CopyName(Last(t))))

\* the last copy was copy_all of a volume into a folder outside of it, and
\* every path of the mirror is one the OS accepts: no directory fails
CopiedVolumeOutside ==
    /\ CopyDone
    /\ LastDispatch.kind = "copy_all"
    /\ ~Under(LastDispatch.paths[1].comps, LastDispatch.destination.comps)
    /\ \A c \in DOMAIN LastDispatch.before :
          Under(LastDispatch.paths[1].comps, c) =>
             Len(Mirror(copier.src.comps, copier.dst.comps, c)) <= MaxPathLen

C5_SourceUntouched ==
    \A k \in 1..Len(dispatches) :
        dispatches[k].kind = "copy_all" =>
            Subtree(fs, dispatches[k].paths[1].comps)
                = Subtree(dispatches[k].before, dispatches[k].paths[1].comps)

\* the first two copies were of the same readable plain file into the same
\* existing folder
SameFileTwice ==
    /\ Len(dispatches) = 2
    /\ copier.pc = "done"
    /\ dispatches[1].kind = "direct"
    /\ dispatches[2].kind = "direct"
    /\ dispatches[1].paths = dispatches[2].paths
    /\ ~dispatches[1].destination.none
    /\ dispatches[1].destination = dispatches[2].destination
    /\ ModeOf(dispatches[1].paths[1].comps) = "ok"

\* C8: after a plain file was copied twice into the same destination, the
\* destination holds the file under the source's name with the source's
\* content, and nothing else of the file system differs from before the first
\* copy: no '_copy' file was made.
C8_FileTwiceOverwrites ==
    SameFileTwice =>
        LET sp == dispatches[1].paths[1].comps
            to == Append(dispatches[1].destination.comps, Last(sp))
        IN  /\ IsFile(fs, to)
            /\ fs[to] = fs[sp]
            /\ \A c \in DOMAIN fs \ {to} :
                  c \in DOMAIN dispatches[1].before /\ fs[c] = dispatches[1].before[c]

\* the destination held another file of that name before the two copies
C8_Witness ==
    /\ SameFileTwice
    /\ LET sp == dispatches[1].paths[1].comps
           to == Append(dispatches[1].destination.comps, Last(sp))
       IN  /\ to # sp
           /\ IsFile(dispatches[1].before, to)
           /\ dispatches[1].before[to] # fs[sp]
           /\ fs[to] = fs[sp]

\* the copy threads started so far, and the notifications they ended with
Started == {k \in 1..Len(dispatches) : dispatches[k].kind # "refused"}
Endings == {k \in 1..Len(boxes) : boxes[k] \in {"showinfo", "showerror"}}

\* C9: a batch copy ends in one of two ways and no exception leaves the
\* thread: success with the status 'Copie terminée', or the error status
\* 'Erreur lors de la copie' with one error notification; each ended copy gave
\* exactly one notification, also the copies started after a failed one.
C9_TwoOutcomes ==
    /\ [](/\ uncaught = 0
          /\ copier.outcome \in {"none", "ok", "error"}
          /\ copier.pc = "done" <=> copier.outcome # "none"
          /\ Cardinality(Endings)
                = Cardinality(Started) - (IF CopierIdle THEN 0 ELSE 1)
          /\ copier.pc = "walk" => copier.stack # <<>>)
    /\ [][(copier.pc # "done" /\ copier'.pc = "done") =>
             \/ /\ copier'.outcome = "ok"
                /\ status' = "Copie terminée"
                /\ boxes' = Append(boxes, "showinfo")
             \/ /\ copier'.outcome = "error"
                /\ status' = "Erreur lors de la copie"
                /\ boxes' = Append(boxes, "showerror")]_vars

\* a copy ended in the error state and the copy started after it ended in
\* success
C9_Witness ==
    /\ copier.outcome = "ok"
    /\ \E k \in 1..Len(boxes) : boxes[k] = "showerror"

-----------------------------------------------------------------------------
(* The Treeview and _populate_tree *)

\* a string with no separator in it, as a path string
Text(name) == Path(<<name>>)

ItemIds(t) == {t[k].id : k \in 1..Len(t)}
ParentOf(t, id) == (CHOOSE k \in 1..Len(t) : t[k].id = id)

\* tree.get_children(parent): the ids, in order; 0 is the parent ''
RECURSIVE TreeChildren(_, _, _)
TreeChildren(t, parent, k) ==
    IF k > Len(t) THEN <<>>
    ELSE (IF t[k].parent = parent THEN <<t[k].id>> ELSE <<>>)
         \o TreeChildren(t, parent, k + 1)

\* the ids at or below the items ids
RECURSIVE Subtrees(_, _)
Subtrees(t, ids) ==
    LET more == ids \cup {t[k].id : k \in {k \in 1..Len(t) : t[k].parent \in ids}}
    IN  IF more = ids THEN ids ELSE Subtrees(t, more)

RECURSIVE Keep(_, _, _)
Keep(t, gone, k) ==
    IF k > Len(t) THEN <<>>
    ELSE (IF t[k].id \in gone THEN <<>> ELSE <<t[k]>>) \o Keep(t, gone, k + 1)

\* tree.delete(*ids): a TclError, and nothing deleted, when an item is gone
TreeDelete(t, ids) ==
    IF Range(ids) \subseteq ItemIds(t)
    THEN [tree |-> Keep(t, Subtrees(t, Range(ids)), 1), raised |-> FALSE]
    ELSE [tree |-> t, raised |-> TRUE]

\* tree.insert(parent, 'end', text=text): a TclError when the parent is gone
TreeInsert(t, id, parent, text) ==
    IF parent = 0 \/ parent \in ItemIds(t)
    THEN [tree |-> Append(t, [id |-> id, parent |-> parent, text |-> text]),
          raised |-> FALSE]
    ELSE [tree |-> t, raised |-> TRUE]

\* os.path.basename(fullpath) or fullpath
NodeLabel(fullpath) ==
    IF Basename(fullpath) = <<>> THEN fullpath ELSE Text(Basename(fullpath))

\* entries of a subdirectory put below the item inserted last
ParentNodeNested(w, rel) == IF rel = <<>> THEN w.root_node ELSE nextId - 1

\* parent_node = root_node if rel == '.' else root_node
ParentNode(w, rel) == IF rel = <<>> THEN w.root_node ELSE w.root_node

NoWorker == [pc |-> "refused", root_path |-> NoPath, kids |-> <<>>,
             root_node |-> 0, stack |-> <<>>, todo |-> <<>>, parent_node |-> 0,
             asked |-> NoPath]

\* open_selected_drive
OpenSelectedDrive ==
    /\ Len(pop) < MaxOpens
    /\ IF drive_var.none
       THEN /\ boxes' = Append(boxes, "showwarning")
            /\ pop' = Append(pop, NoWorker)
       ELSE /\ pop' = Append(pop, [NoWorker EXCEPT !.pc = "status",
                                                   !.root_path = drive_var,
                                                   !.asked = drive_var])
            /\ UNCHANGED boxes
    /\ UNCHANGED <<osState, enumResult, fs, failMode, reverseScan, drive_var,
                   combo_values, destination, status, uncaught, copier,
                   dispatches, tree, nextId>>

\* self.set_status(f'Lecture de {root_path} ...')
PopStatus(i) ==
    /\ pop[i].pc = "status"
    /\ status' = "Lecture de"
    /\ pop' = [pop EXCEPT ![i].pc = "children"]
    /\ UNCHANGED <<osState, enumResult, fs, failMode, reverseScan, drive_var,
                   combo_values, destination, boxes, uncaught, copier,
                   dispatches, tree, nextId>>

\* self.tree.get_children(), the argument of the delete
PopChildren(i) ==
    /\ pop[i].pc = "children"
    /\ pop' = [pop EXCEPT ![i].pc = "delete",
                          ![i].kids = TreeChildren(tree, 0, 1)]
    /\ UNCHANGED <<osState, enumResult, fs, failMode, reverseScan, drive_var,
                   combo_values, destination, status, boxes, uncaught, copier,
                   dispatches, tree, nextId>>

\* self.tree.delete(*...): its TclError ends the thread
PopDelete(i) ==
    /\ pop[i].pc = "delete"
    /\ LET r == TreeDelete(tree, pop[i].kids)
       IN  /\ tree' = r.tree
           /\ pop' = [pop EXCEPT ![i].pc = IF r.raised THEN "dead" ELSE "root"]
           /\ uncaught' = IF r.raised THEN uncaught + 1 ELSE uncaught
    /\ UNCHANGED <<osState, enumResult, fs, failMode, reverseScan, drive_var,
                   combo_values, destination, status, boxes, copier,
                   dispatches, nextId>>

\* root_node = insert_node('', root_path), and os.walk is set up
PopRoot(i) ==
    /\ pop[i].pc = "root"
    /\ tree' = TreeInsert(tree, nextId, 0, NodeLabel(pop[i].root_path)).tree
    /\ nextId' = nextId + 1
    /\ pop' = [pop EXCEPT ![i].pc = "walk", ![i].root_node = nextId,
                          ![i].stack = <<pop[i].root_path.comps>>]
    /\ UNCHANGED <<osState, enumResult, fs, failMode, reverseScan, drive_var,
                   combo_values, destination, status, boxes, uncaught, copier,
                   dispatches>>

\* os.walk yields the next directory: rel, parent_node, and the names to insert
PopWalk(i) ==
    /\ pop[i].pc = "walk"
    /\ pop[i].stack # <<>>
    /\ LET w == pop[i]
           root == Head(w.stack)
           ls == Scandir(fs, root, reverseScan)
           rest == [k \in 1..Len(ls.dirs) |-> Append(root, ls.dirs[k])]
                   \o Tail(w.stack)
       IN  pop' = [pop EXCEPT ![i].stack = rest,
                              ![i].todo = ls.dirs \o ls.files,
                              ![i].parent_node =
                                  ParentNode(w, Relpath(Path(root), w.root_path)),
                              ![i].pc = IF ls.dirs \o ls.files = <<>>
                                        THEN "walk" ELSE "insert"]
    /\ UNCHANGED <<osState, enumResult, fs, failMode, reverseScan, drive_var,
                   combo_values, destination, status, boxes, uncaught, copier,
                   dispatches, tree, nextId>>

\* self.tree.insert(parent_node, 'end', text=...) in its try: a TclError is
\* passed over
PopInsert(i) ==
    /\ pop[i].pc = "insert"
    /\ LET w == pop[i]
           r == TreeInsert(tree, nextId, w.parent_node, Text(Head(w.todo)))
       IN  /\ tree' = r.tree
           /\ nextId' = IF r.raised THEN nextId ELSE nextId + 1
           /\ pop' = [pop EXCEPT ![i].todo = Tail(w.todo),
                                 ![i].pc = IF Tail(w.todo) = <<>>
                                           THEN "walk" ELSE "insert"]
    /\ UNCHANGED <<osState, enumResult, fs, failMode, reverseScan, drive_var,
                   combo_values, destination, status, boxes, uncaught, copier,
                   dispatches>>

\* self.set_status('Arborescence chargée')
PopFinish(i) ==
    /\ pop[i].pc = "walk"
    /\ pop[i].stack = <<>>
    /\ status' = "Arborescence chargée"
    /\ pop' = [pop EXCEPT ![i].pc = "done"]
    /\ UNCHANGED <<osState, enumResult, fs, failMode, reverseScan, drive_var,
                   combo_values, destination, boxes, uncaught, copier,
                   dispatches, tree, nextId>>

InitTree ==
    \E os \in {PosixOs, WinOs}, shape \in Shapes :
        /\ Constructed(os)
        /\ fs = WorldFs(os, shape)
        /\ failMode = [c \in FilesOf(Mounted(VolumeRoot(os), shape)) |-> "ok"]
        /\ reverseScan \in BOOLEAN

PopSteps ==
    \/ \E i \in 1..Len(pop) : PopStatus(i)
    \/ \E i \in 1..Len(pop) : PopChildren(i)
    \/ \E i \in 1..Len(pop) : PopDelete(i)
    \/ \E i \in 1..Len(pop) : PopRoot(i)
    \/ \E i \in 1..Len(pop) : PopWalk(i)
    \/ \E i \in 1..Len(pop) : PopInsert(i)
    \/ \E i \in 1..Len(pop) : PopFinish(i)

\* 'Ouvrir' once, nothing else touching the tree while the thread runs
NextOpen ==
    \/ pop = <<>> /\ RefreshDrives
    \/ pop = <<>> /\ \E d \in Range(combo_values) : SelectDrive(d)
    \/ pop = <<>> /\ OpenSelectedDrive
    \/ PopSteps

SpecOpen == InitTree /\ [][NextOpen]_vars

InitRace ==
    \E os \in {PosixOs, WinOs} :
        /\ Constructed(os)
        /\ fs = WorldFs(os, Shape0)
        /\ failMode = [c \in FilesOf(Mounted(VolumeRoot(os), Shape0)) |-> "ok"]
        /\ reverseScan = FALSE

\* the buttons at any time, any number of threads
NextTree ==
    \/ RefreshDrives
    \/ \E d \in Range(combo_values) : SelectDrive(d)
    \/ OpenSelectedDrive
    \/ PopSteps

SpecTree == InitRace /\ [][NextTree]_vars

-----------------------------------------------------------------------------
(* Properties of the tree *)

\* the files and the directories strictly below directory top
EntriesBelow(f, top) == {c \in DOMAIN f : Under(top, c) /\ c # top}

Roots(t) == {k \in 1..Len(t) : t[k].parent = 0}
ChildrenOf(t, id) == {k \in 1..Len(t) : t[k].parent = id}

\* the tree shows the volume at path p: one root with its label, and as many
\* items below it as the volume has files and directories, all of them
\* children of the root
Shows(t, p) ==
    /\ Cardinality(Roots(t)) = 1
    /\ \A k \in Roots(t) :
          /\ t[k].text = (IF Basename(p) = <<>> THEN p ELSE Text(Last(p.comps)))
          /\ Cardinality(ChildrenOf(t, t[k].id))
                = Cardinality(EntriesBelow(fs, p.comps))
    /\ Len(t) = 1 + Cardinality(EntriesBelow(fs, p.comps))
    /\ \A c \in EntriesBelow(fs, p.comps) :
          \E k \in 1..Len(t) : t[k].parent # 0 /\ t[k].text = Text(Last(c))

\* C6: after _populate_tree ran alone on a root with N files and M
\* directories at any depth, the tree holds one root node, labelled with the
\* root's base name or, if that is empty, with the full path, and N+M nodes,
\* all of them children of the root.
C6_Flattening ==
    (Len(pop) = 1 /\ pop[1].pc = "done") => Shows(tree, pop[1].root_path)

\* a volume with nested directories was materialised
C6_Witness ==
    /\ Len(pop) = 1
    /\ pop[1].pc = "done"
    /\ \E c \in EntriesBelow(fs, pop[1].root_path.comps) :
          Len(c) = Len(pop[1].root_path.comps) + 3
    /\ Len(tree) = 6

\* C10: once all _populate_tree threads have ended and the status is
\* 'Arborescence chargée', the tree shows the most recently opened volume and
\* nothing else, whatever the interleaving of the threads and of
\* refresh_drives.
C10_TreeNotCorrupted ==
    (/\ pop # <<>>
     /\ \A i \in 1..Len(pop) : pop[i].pc = "done"
     /\ status = "Arborescence chargée")
        => Shows(tree, pop[Len(pop)].root_path)

-----------------------------------------------------------------------------
(* list_removable_drives on its own *)

MediaBase == << <<"media">> >>
EnumBases == {MediaBase, << <<"mnt">> >>, << <<"Volumes">> >>}
BaseStates == {"absent", "ok", "perm", "notdir"}
EnumEntries == << [name |-> <<"u">>, mount |-> TRUE],
                  [name |-> <<"s">>, mount |-> FALSE],
                  [name |-> <<"v">>, mount |-> TRUE] >>
EnumLetters == {2, 4, 25}

\* what the OS may answer: on the mount-point platform each base directory is
\* absent, listable, unreadable or no directory, and the home directory is
\* /home or /; on the drive-letter platform some letters are present and each
\* query answers a type or fails
EnumInputs ==
    {[platform |-> "posix", home |-> h, mask |-> 0, dtype |-> <<>>,
      bases |-> [b \in EnumBases |-> [state |-> st[b], entries |-> EnumEntries]]] :
        h \in {<< <<"home">> >>, <<>>}, st \in [EnumBases -> BaseStates]}
    \cup
    {[platform |-> "win", home |-> <<>>, mask |-> m, dtype |-> t, bases |-> <<>>] :
        m \in {Raises, 0, Pow2(2), Pow2(4) + Pow2(25), Pow2(2) + Pow2(4) + Pow2(25)},
        t \in [EnumLetters -> {DRIVE_REMOVABLE, 3, Raises}]}

InitEnum ==
    /\ osState \in EnumInputs
    /\ enumResult = [raised |-> FALSE, drives |-> <<>>, called |-> FALSE]
    /\ fs = Dirs({<<>>})
    /\ failMode = <<>>
    /\ reverseScan = FALSE
    /\ drive_var = NoPath
    /\ combo_values = <<>>
    /\ destination = NoPath
    /\ status = "Statut: prêt"
    /\ boxes = <<>>
    /\ uncaught = 0
    /\ copier = NoCopier
    /\ dispatches = <<>>
    /\ tree = <<>>
    /\ nextId = 1
    /\ pop = <<>>

\* a call of list_removable_drives()
EnumCall ==
    /\ ~enumResult.called
    /\ enumResult' = [raised |-> ListRemovableDrives(osState).raised,
                      drives |-> ListRemovableDrives(osState).drives,
                      called |-> TRUE]
    /\ UNCHANGED <<osState, fs, failMode, reverseScan, drive_var, combo_values,
                   destination, status, boxes, uncaught, copier, dispatches,
                   tree, nextId, pop>>

SpecEnum == InitEnum /\ [][EnumCall]_vars

\* the check a returned path has to pass
PassedCheck(os, p) ==
    IF os.platform = "win"
    THEN \E i \in 0..(NumLetters - 1) :
            /\ p = DriveLetterPath(i)
            /\ BitSet(os.mask, i)
            /\ os.dtype[i] = DRIVE_REMOVABLE
    ELSE \E k \in 1..Len(Candidates(os)) :
            LET b == BaseOf(os, Candidates(os)[k])
            IN  /\ b.state = "ok"
                /\ \E j \in 1..Len(b.entries) :
                      /\ b.entries[j].mount
                      /\ p = Join(Candidates(os)[k], b.entries[j].name)

\* C4: the enumeration never raises, whatever the state of the drives and
\* base directories and whichever query fails, and every path it returns
\* passed its check.
C4_EnumerationNeverRaises ==
    enumResult.called =>
        /\ ~enumResult.raised
        /\ \A k \in 1..Len(enumResult.drives) :
              PassedCheck(osState, enumResult.drives[k])

-----------------------------------------------------------------------------
(* The session: the buttons are used while a copy thread and a tree thread  *)
(* run; one thread of each kind is started.  copy_all passes the root of a  *)
(* mounted volume, a directory, so the thread takes the directory branch.   *)

InitSession ==
    /\ Constructed(PosixOs)
    /\ fs = WorldFs(PosixOs, Shape0)
    /\ failMode = [c \in FilesOf(Mounted(VolumeRoot(PosixOs), Shape0)) |-> "ok"]
    /\ reverseScan = FALSE

SessionDests == {Path(OutDir(osState)), Path(AltDir(osState))}

NextSession ==
    \/ RefreshDrives
    \/ \E d \in Range(combo_values) : SelectDrive(d)
    \/ \E d \in SessionDests : ChooseDestination(d)
    \/ dispatches = <<>> /\ CopyAll
    \/ CopyStart \/ CopyEnterTree \/ CopyWalk \/ CopyFinish
    \/ pop = <<>> /\ OpenSelectedDrive
    \/ PopSteps

SpecSession == InitSession /\ [][NextSession]_vars

\* what copy_all derives from the volume S and the destination D
FolderFor(S, D) == Join(D, CopyFolderName(S))
TargetFor(S, D) ==
    Join(FolderFor(S, D),
         IF Basename(Rstrip(S)) = <<>> THEN <<"root">> ELSE Basename(Rstrip(S)))

\* the paths that are new or have changed since the file system was f
Written(f) == {c \in DOMAIN fs : c \notin DOMAIN f \/ fs[c] # f[c]}

\* C7: a thread started by copy_all with volume S and destination D reads
\* below S and writes below the folder derived from S and D only, and a
\* thread started by open_selected_drive walks the volume it was started on,
\* whatever is selected or chosen while they run.
C7_CapturedAtDispatch ==
    /\ copier.pc # "none" =>
          LET S == LastDispatch.drive
              D == LastDispatch.destination
          IN  /\ LastDispatch.kind = "copy_all"
              /\ copier.paths = <<S>>
              /\ copier.pc \in {"start", "loop"} =>
                    WorkerDst(copier) = FolderFor(S, D)
              /\ copier.pc = "walk" =>
                    /\ copier.src = S
                    /\ copier.dst = TargetFor(S, D)
                    /\ \A k \in 1..Len(copier.stack) :
                          Under(S.comps, copier.stack[k])
              /\ \A c \in Written(LastDispatch.before) :
                    Under(FolderFor(S, D).comps, c)
    /\ \A i \in 1..Len(pop) :
          pop[i].pc # "refused" =>
             /\ pop[i].root_path = pop[i].asked
             /\ \A k \in 1..Len(pop[i].stack) :
                   Under(pop[i].asked.comps, pop[i].stack[k])

\* the volume and the destination were both changed while the copy thread was
\* running, and it has copied a file since; a tree thread walks another volume
\* than the one now selected
C7_Witness ==
    /\ copier.pc = "loop"
    /\ drive_var # LastDispatch.drive
    /\ destination # LastDispatch.destination
    /\ \E c \in Written(LastDispatch.before) :
          IsFile(fs, c) /\ Under(TargetFor(LastDispatch.drive,
                                           LastDispatch.destination).comps, c)
    /\ \E i \in 1..Len(pop) :
          pop[i].pc = "insert" /\ pop[i].asked # drive_var

====
